---------------------------- MODULE Spec2Model ----------------------------
(***************************************************************************)
(* Habit tracker (Django / DRF): the Habit and HabitCompletion tables, the  *)
(* completion tracker, the habit validation rules and the scheduled jobs,   *)
(* as one state machine.                                                    *)
(*                                                                          *)
(* Time is the calendar date of timezone.now(), counted in days.  A date    *)
(* difference (a timedelta's .days) is a difference of day numbers.         *)
(*                                                                          *)
(* The module holds several specifications over the same variables and the  *)
(* same operators; each explores the program with the inputs of one family  *)
(* of operations:                                                           *)
(*   Spec          the completion tracker with interleaved requests, the    *)
(*                 retention job, and habit / user deletion                 *)
(*   SeqSpec       one habit: the tracker, the updates, the retention job   *)
(*                 and the clock, one request at a time                     *)
(*   OwnerSpec     one habit and the requests of its owner, sent fairly     *)
(*   LinkSpec      creates and updates over is_pleasant, related_habit and  *)
(*                 reward                                                   *)
(*   ValidateSpec  the validation of a habit's fields                       *)
(*   PersistSpec   durations and frequencies through every saving operation *)
(*   OrderSpec     request data that break several field rules at once      *)
(*   RemindSpec    reminders sent one by one, with every gateway outcome    *)
(*   JobSpec       the five scheduled jobs, with faults of the repository   *)
(***************************************************************************)
EXTENDS Integers, FiniteSets, Sequences, Bags, TLC

VARIABLES
    today,        \* timezone.now().date(), as a day number
    ticks,        \* how many times the clock has been advanced
    users,        \* the rows of the User table (their keys)
    habits,       \* the Habit table: id -> row
    nextHabitId,  \* the next AutoField id of the Habit table
    completions,  \* the HabitCompletion table: a bag of rows [habit, user, date]
    pc,           \* per request slot: where an interleaved mark_completed stands
    req,          \* per request slot: the (habit, user) of that request and the date its reads used
    last,         \* the response of the operation that ran last
    probe,        \* the habit instance last handed to a validation entry point
    chat,         \* the users whose telegram_chat_id is set
    run,          \* the run of a reminder job that is followed step by step
    effects       \* what the operation that ran last did outside the tables: dispatcher calls, gateway calls,
                  \* log records, whether the repository raised in it, and the day it ran on

vars ==
    <<today, ticks, users, habits, nextHabitId, completions, pc, req, last, probe,
      chat, run, effects>>

---------------------------------------------------------------------------
(* Program constants *)

\* validators.py:28  days_since_last_completion > 7
StaleDays == 7
\* validators.py:57  timedelta(days=7)
ConsistencyDays == 7
\* tasks.py:157  timedelta(days=90)
RetentionDays == 90
\* validators.py:10, 42, 77  frequency > 7
MaxFrequency == 7
\* models.py:46  MinValueValidator(1), MaxValueValidator(120)
MinDuration == 1
MaxDuration == 120
\* serializers.py:46  duration > 120
SerializerMaxDuration == 120
\* models.py:10-12  the choices of Habit.frequency
DAILY == 1
WEEKLY == 7
MONTHLY == 30

\* tasks.py:74  timedelta(hours=1), in minutes
Hour == 60
\* tasks.py:74  .time() of a datetime: the minutes of a day, after which the
\* time of day starts again from 0
MinutesPerDay == 1440
\* tests.py:32  time(9, 0), the time of the habit the tests create
TestTime == 540

\* models.py:29-35  related_habit is nullable: the null reference
Null == 0
\* models.py:42-44  reward is nullable: the null text
NullText == "<null>"

---------------------------------------------------------------------------
(* Bounds *)

\* Spec: the clock is advanced at most this many times
TrackTicks == 1
\* Spec: the Habit table hands out the ids 1..TrackHabits
TrackHabits == 1
\* SeqSpec: the clock is advanced at most this many times
SeqTicks == 2
\* the registered users
AllUsers == {"u1", "u2"}
\* the request slots of interleaved mark_completed calls
Procs == {1, 2}
\* by how many days one step of the clock advances it: a day, the 7 days of
\* the cadence rule, and past the retention period
TickSteps == {1, StaleDays, RetentionDays + 1}

---------------------------------------------------------------------------
(* Values *)

NoUser == "-"

Max(S) == CHOOSE x \in S : \A y \in S : y <= x

\* a row of HabitCompletion (models.py:98-103)
Completion(h, u, d) == [habit |-> h, user |-> u, date |-> d]

\* request data: a record holding the fields the request sends
Has(data, k) == k \in DOMAIN data
Get(data, k, default) == IF k \in DOMAIN data THEN data[k] ELSE default

\* an operation that calls no dispatcher and in which the repository does
\* not raise
NoEffects ==
    [called |-> <<>>, gateway |-> <<>>, logged |-> <<>>, fault |-> FALSE,
     day |-> 0, repeat |-> FALSE]

\* no run of a job is followed
NoRun ==
    [job |-> "none", pc |-> "idle", todo |-> <<>>, h |-> Null, count |-> 0,
     attempts |-> <<>>, raised |-> {}]

\* the response of an operation
Response(op, h, u, res, n) == [op |-> op, h |-> h, u |-> u, res |-> res, n |-> n]


---------------------------------------------------------------------------
(* The tables *)

Rows == BagToSet(completions)

\* habit.completions: the related manager (models.py:99-101)
CompletionsOf(h) == {e \in Rows : e.habit = h}

\* models.py:105-106  unique_together = ["habit", "user", "date"]: what the
\* database checks at the INSERT of `row`
UniqueTogetherDropped(row) == TRUE
UniqueTogether(row) == ~BagIn(row, completions)

\* models.py:99-102  the foreign keys of a HabitCompletion row must exist
ForeignKeysExist(row) == row.habit \in DOMAIN habits /\ row.user \in users

\* on_delete=CASCADE (models.py:100, 102): the rows left when the habits in
\* `hs` and the users in `us` are deleted
CascadeCompletions(hs, us) ==
    [e \in {x \in Rows : x.habit \notin hs /\ x.user \notin us} |-> completions[e]]

\* the rows left when the links to the deleted habits are kept
CascadeHabitsKeepLink(hs) == [h \in DOMAIN habits \ hs |-> habits[h]]

\* models.py:29-35  on_delete=SET_NULL on related_habit, and the deleted rows
\* themselves: the Habit table left when the habits in `hs` are deleted
CascadeHabits(hs) ==
    [h \in DOMAIN habits \ hs |->
        IF habits[h].related_habit \in hs
        THEN [habits[h] EXCEPT !.related_habit = Null]
        ELSE habits[h]]

---------------------------------------------------------------------------
(* Habit validation *)

\* Python truthiness of a nullable text: None and "" are false
Truthy(text) == text \notin {NullText, ""}

\* models.py:60-87  Habit.clean: "ok", or the ValidationError it raises.
\* rel_is_pleasant is self.related_habit.is_pleasant, read from the related
\* object the instance holds.
cleanNoRewardRule(inst, rel_is_pleasant) ==
    IF inst.is_pleasant
    THEN IF inst.related_habit # Null THEN "pleasant_has_related" ELSE "ok"
    ELSE IF inst.related_habit # Null /\ Truthy(inst.reward)
         THEN "reward_and_related"
         ELSE IF inst.related_habit # Null /\ ~rel_is_pleasant
              THEN "related_not_pleasant"
              ELSE "ok"
clean(inst, rel_is_pleasant) ==
    IF inst.is_pleasant
    THEN IF Truthy(inst.reward) THEN "pleasant_has_reward"
         ELSE IF inst.related_habit # Null THEN "pleasant_has_related"
         ELSE "ok"
    ELSE IF inst.related_habit # Null /\ Truthy(inst.reward)
         THEN "reward_and_related"
         ELSE IF inst.related_habit # Null /\ ~rel_is_pleasant
              THEN "related_not_pleasant"
              ELSE "ok"

\* validators.py:48-69  validate_habit_consistency: TRUE when it raises no
\* ValidationError.  pk is Null for an instance not saved yet.
validate_habit_consistency_gt(pk, inst) ==
    IF pk = Null
    THEN TRUE
    ELSE LET seven_days_ago == today - ConsistencyDays
             recent_completion ==
                 \E e \in CompletionsOf(pk) : e.date > seven_days_ago
         IN  IF ~recent_completion
             THEN ~(inst.created_at < seven_days_ago)
             ELSE TRUE
validate_habit_consistency(pk, inst) ==
    IF pk = Null
    THEN TRUE
    ELSE LET seven_days_ago == today - ConsistencyDays
             recent_completion ==
                 \E e \in CompletionsOf(pk) : e.date >= seven_days_ago
         IN  IF ~recent_completion
             THEN ~(inst.created_at < seven_days_ago)
             ELSE TRUE

\* validators.py:71-80  validate_habit_before_save
validate_habit_before_save(pk, inst) ==
    IF inst.frequency > MaxFrequency
    THEN "frequency_over_7"
    ELSE IF ~validate_habit_consistency(pk, inst)
         THEN "HabitInconsistent"
         ELSE "ok"

\* models.py:36, 45  PositiveSmallIntegerField: the column's CHECK (>= 0)
PositiveColumns(inst) == inst.duration >= 0 /\ inst.frequency >= 0

\* models.py:89-95  Habit.save: "ok" when the row is written, or the error
save(pk, inst, rel_is_pleasant) ==
    IF clean(inst, rel_is_pleasant) # "ok"
    THEN clean(inst, rel_is_pleasant)
    ELSE IF validate_habit_before_save(pk, inst) # "ok"
         THEN validate_habit_before_save(pk, inst)
         ELSE IF ~PositiveColumns(inst) THEN "IntegrityError" ELSE "ok"

\* is_pleasant of the stored habit r, as a query for it returns it
StoredIsPleasant(r) == IF r \in DOMAIN habits THEN habits[r].is_pleasant ELSE FALSE

\* validators.py:6-11  validate_frequency: TRUE when it raises no error
validate_frequency(value) == ~(value > MaxFrequency)

\* validators.py:34-46  validate_habit_frequency_on_creation: TRUE when it
\* raises no error (a missing or zero frequency is falsy and passes)
validate_habit_frequency_on_creation(data) ==
    LET frequency == Get(data, "frequency", 0)
    IN  ~(frequency # 0 /\ frequency > MaxFrequency)

\* models.py:45-48  the validators of Habit.duration
DurationValidatorsMax121(value) == value >= MinDuration /\ value <= MaxDuration + 1
DurationValidators(value) == value >= MinDuration /\ value <= MaxDuration

\* models.py:36-41  the choices and the validators of Habit.frequency
FrequencyValidators(value) ==
    value \in {DAILY, WEEKLY, MONTHLY} /\ validate_frequency(value)

\* models.py:36-48, 60-87  Model.full_clean on a Habit: the validators of the
\* fields, then clean(); "ok", or the ValidationError it raises.  When a
\* field and clean() both fail the error holds both messages; the operator
\* names the field's.
full_clean(inst, rel_is_pleasant) ==
    IF ~DurationValidators(inst.duration)
    THEN "invalid_duration"
    ELSE IF ~FrequencyValidators(inst.frequency)
         THEN "invalid_frequency"
         ELSE clean(inst, rel_is_pleasant)

\* serializers.py:6-12  the fields ModelSerializer derives from the model
\* (models.py:26-49) and their validation of the request data: duration is
\* required unless the update is partial; the related habit must exist
SerializerFields(data, partial) ==
    IF ~partial /\ ~Has(data, "duration")
    THEN "duration_required"
    ELSE IF Has(data, "duration") /\ ~DurationValidators(data.duration)
         THEN "invalid_duration"
         ELSE IF Has(data, "frequency") /\ ~FrequencyValidators(data.frequency)
              THEN "invalid_frequency"
              ELSE IF /\ Get(data, "related_habit", Null) # Null
                      /\ data.related_habit \notin DOMAIN habits
                   THEN "invalid_related_habit"
                   ELSE "ok"

\* serializers.py:14-54  HabitSerializer.validate.  pk is the instance's id,
\* Null on create.
validate(pk, data) ==
    LET is_pleasant == Get(data, "is_pleasant",
                           IF pk # Null THEN habits[pk].is_pleasant ELSE FALSE)
        related_habit == Get(data, "related_habit", Null)
        reward == Get(data, "reward", NullText)
        duration == Get(data, "duration", 0)
    IN  IF is_pleasant /\ Truthy(reward) THEN "pleasant_has_reward"
        ELSE IF is_pleasant /\ related_habit # Null THEN "pleasant_has_related"
        ELSE IF ~is_pleasant /\ related_habit # Null /\ Truthy(reward)
             THEN "reward_and_related"
        ELSE IF ~is_pleasant /\ related_habit # Null
                /\ ~StoredIsPleasant(related_habit)
             THEN "related_not_pleasant"
        ELSE IF duration # 0 /\ duration > SerializerMaxDuration
             THEN "duration_over_120"
        ELSE IF pk = Null /\ ~validate_habit_frequency_on_creation(data)
             THEN "frequency_over_7"
        ELSE "ok"

\* models.py:26-49  the defaults of the fields a create does not send
Defaults ==
    [is_pleasant |-> FALSE, related_habit |-> Null, reward |-> NullText,
     frequency |-> DAILY, is_public |-> FALSE]

\* the instance with the sent fields assigned (setattr, serializers.py:72)
Assign(inst, data) ==
    [k \in DOMAIN inst |-> IF k \in DOMAIN data THEN data[k] ELSE inst[k]]

---------------------------------------------------------------------------
(* The completion tracker *)

\* validators.py:19-32  validate_habit_completion: TRUE when it raises no
\* ValidationError
validate_habit_completion_ge(last_completion_date) ==
    LET days_since_last_completion == today - last_completion_date
    IN  ~(days_since_last_completion >= StaleDays)
validate_habit_completion(last_completion_date) ==
    LET days_since_last_completion == today - last_completion_date
    IN  ~(days_since_last_completion > StaleDays)

\* services.py:51-59  the reads of mark_habit_completed and what they decide:
\* an error, or "insert" to go on to the INSERT
MarkReadsNoExists(h, u) ==
    LET mine == {e \in CompletionsOf(h) : e.user = u}
    IN  IF mine # {}
           /\ ~validate_habit_completion(Max({e.date : e \in mine}))
        THEN "StaleHabit"
        ELSE "insert"
MarkReads(h, u) ==
    LET mine == {e \in CompletionsOf(h) : e.user = u}
    IN  IF \E e \in mine : e.date = today
        THEN "AlreadyCompletedToday"
        ELSE IF mine # {}
                /\ ~validate_habit_completion(Max({e.date : e \in mine}))
             THEN "StaleHabit"
             ELSE "insert"

\* services.py:61  habit.completions.create(user=user, date=today).  The
\* DateField is auto_now_add (models.py:103): the row's date is the current
\* date when the INSERT runs.  The database answers the INSERT.
MarkInsertResult(h, u) ==
    LET row == Completion(h, u, today)
    IN  IF ForeignKeysExist(row) /\ UniqueTogether(row)
        THEN "ok"
        ELSE "IntegrityError"

AddCompletion(h, u) == completions (+) SetToBag({Completion(h, u, today)})

\* the check when whoever can read a habit can also change it
OwnerAccessReadIsWrite(u, h) ==
    IF ~(habits[h].user = u \/ habits[h].is_public) THEN "NotFound" ELSE "ok"

\* views.py:26-31, 139-145 and permissions.py:9-12: get_object() on the
\* queryset of own and public habits, then the owner check of an unsafe
\* method: "ok" when user u may change habit h
OwnerAccess(u, h) ==
    IF ~(habits[h].user = u \/ habits[h].is_public)
    THEN "NotFound"
    ELSE IF habits[h].user # u THEN "Forbidden" ELSE "ok"

\* views.py:133-154 with services.py:46-63: POST mark_completed by user u on
\* habit h, run without another request in between
MarkCompleted(u, h) ==
    /\ h \in DOMAIN habits
    /\ u \in users
    /\ LET r == MarkReads(h, u)
           res == IF OwnerAccess(u, h) # "ok" THEN OwnerAccess(u, h)
                  ELSE IF r = "insert" THEN MarkInsertResult(h, u) ELSE r
       IN  /\ completions' = IF res = "ok" THEN AddCompletion(h, u) ELSE completions
           /\ last' = Response("mark_completed", h, u, res, 0)
    /\ effects' = NoEffects
    /\ UNCHANGED <<today, ticks, users, habits, nextHabitId, pc, req, probe, chat, run>>

\* views.py:139-145, services.py:51-59  the same request interleaved with
\* others: the permission check and the reads
MarkBegin(p, u, h) ==
    /\ pc[p] = "idle"
    /\ h \in DOMAIN habits
    /\ u \in users
    /\ LET r == IF OwnerAccess(u, h) # "ok" THEN OwnerAccess(u, h)
                ELSE MarkReads(h, u)
       IN  IF r = "insert"
           THEN /\ pc' = [pc EXCEPT ![p] = "insert"]
                /\ req' = [req EXCEPT ![p] = [h |-> h, u |-> u, d |-> today]]
                /\ UNCHANGED last
           ELSE /\ UNCHANGED <<pc, req>>
                /\ last' = Response("mark_completed", h, u, r, 0)
    /\ effects' = NoEffects
    /\ UNCHANGED <<today, ticks, users, habits, nextHabitId, completions, probe, chat, run>>

\* services.py:61-63, views.py:147-154  the same request interleaved with
\* others: the INSERT.  The view catches ValidationError only; what the
\* database raises is the response.
MarkInsert(p) ==
    /\ pc[p] = "insert"
    /\ LET h == req[p].h
           u == req[p].u
           res == MarkInsertResult(h, u)
       IN  /\ completions' = IF res = "ok" THEN AddCompletion(h, u) ELSE completions
           /\ last' = Response("mark_insert", h, u, res, 0)
    /\ pc' = [pc EXCEPT ![p] = "idle"]
    /\ req' = [req EXCEPT ![p] = [h |-> Null, u |-> NoUser, d |-> 0]]
    /\ effects' = NoEffects
    /\ UNCHANGED <<today, ticks, users, habits, nextHabitId, probe, chat, run>>

---------------------------------------------------------------------------
(* Habits: creation and deletion *)

\* models.py:20-50  the row a create writes; created_at is auto_now_add, and
\* time is the time of day in minutes (that of the tests' habit when the
\* data name none)
NewHabit(u, data) ==
    [user |-> u, is_pleasant |-> data.is_pleasant,
     related_habit |-> data.related_habit, reward |-> data.reward,
     duration |-> data.duration, frequency |-> data.frequency,
     is_public |-> data.is_public, created_at |-> today,
     time |-> Get(data, "time", TestTime)]

\* the Habit table with row `inst` written under id h
WriteHabit(h, inst) ==
    [x \in DOMAIN habits \cup {h} |-> IF x = h THEN inst ELSE habits[x]]

\* Habit.objects.create(user=u, **data): models.py:89-95 on a new instance
ModelCreate(u, data) ==
    /\ u \in users
    /\ data.related_habit # Null => data.related_habit \in DOMAIN habits
    /\ LET inst == NewHabit(u, data)
           res == save(Null, inst, StoredIsPleasant(data.related_habit))
       IN  /\ habits' = IF res = "ok" THEN WriteHabit(nextHabitId, inst) ELSE habits
           /\ nextHabitId' = IF res = "ok" THEN nextHabitId + 1 ELSE nextHabitId
           /\ last' = Response("model_create",
                               IF res = "ok" THEN nextHabitId ELSE Null, u, res, 0)
    /\ effects' = NoEffects
    /\ UNCHANGED <<today, ticks, users, completions, pc, req, probe, chat, run>>

\* views.py:33-37, serializers.py:56-63  POST by user u: field validation,
\* validate(), create() and the save() of the new instance
SerializerCreate(u, data) ==
    /\ u \in users
    /\ LET sent == [k \in DOMAIN Defaults \cup {"duration"} |->
                        IF k \in DOMAIN data THEN data[k]
                        ELSE IF k = "duration" THEN 0 ELSE Defaults[k]]
           inst == NewHabit(u, sent)
           res == IF SerializerFields(data, FALSE) # "ok"
                  THEN SerializerFields(data, FALSE)
                  ELSE IF validate(Null, data) # "ok"
                  THEN validate(Null, data)
                  ELSE IF ~validate_habit_frequency_on_creation(data)
                  THEN "frequency_over_7"
                  ELSE save(Null, inst, StoredIsPleasant(inst.related_habit))
       IN  /\ habits' = IF res = "ok" THEN WriteHabit(nextHabitId, inst) ELSE habits
           /\ nextHabitId' = IF res = "ok" THEN nextHabitId + 1 ELSE nextHabitId
           /\ last' = Response("create",
                               IF res = "ok" THEN nextHabitId ELSE Null, u, res, 0)
    /\ effects' = NoEffects
    /\ UNCHANGED <<today, ticks, users, completions, pc, req, probe, chat, run>>

\* serializers.py:65-72 after views.py:26-31 and permissions.py:9-12: PUT
\* (partial = FALSE) or PATCH (partial = TRUE) by user u on habit h.  The
\* related object clean() reads is the one the serializer field or the
\* foreign key fetched: the stored row.
SerializerUpdate(u, h, data, partial) ==
    /\ u \in users
    /\ h \in DOMAIN habits
    /\ LET inst == Assign(habits[h], data)
           res == IF OwnerAccess(u, h) # "ok"
                  THEN OwnerAccess(u, h)
                  ELSE IF SerializerFields(data, partial) # "ok"
                  THEN SerializerFields(data, partial)
                  ELSE IF validate(h, data) # "ok"
                  THEN validate(h, data)
                  ELSE IF ~validate_habit_consistency(h, habits[h])
                  THEN "HabitInconsistent"
                  ELSE save(h, inst, StoredIsPleasant(inst.related_habit))
       IN  /\ habits' = IF res = "ok" THEN WriteHabit(h, inst) ELSE habits
           /\ last' = Response("update", h, u, res, 0)
    /\ effects' = NoEffects
    /\ UNCHANGED <<today, ticks, users, nextHabitId, completions, pc, req, probe, chat, run>>

\* views.py:113-131  POST toggle_public by user u on habit h
TogglePublic(u, h) ==
    /\ u \in users
    /\ h \in DOMAIN habits
    /\ LET inst == [habits[h] EXCEPT !.is_public = ~habits[h].is_public]
           res == IF OwnerAccess(u, h) # "ok"
                  THEN OwnerAccess(u, h)
                  ELSE save(h, inst, StoredIsPleasant(inst.related_habit))
       IN  /\ habits' = IF res = "ok" THEN WriteHabit(h, inst) ELSE habits
           /\ last' = Response("toggle_public", h, u, res, 0)
    /\ effects' = NoEffects
    /\ UNCHANGED <<today, ticks, users, nextHabitId, completions, pc, req, probe, chat, run>>

\* models.py:89-95  save() of the stored habit h after assigning the fields
\* of `data` to the instance.  `own` is whether the related object assigned
\* is this very instance (its is_pleasant is then the assigned one) rather
\* than a row fetched from the table.
ModelSave(h, data, own) ==
    /\ h \in DOMAIN habits
    /\ Get(data, "related_habit", Null) # Null => data.related_habit \in DOMAIN habits
    /\ own => Get(data, "related_habit", Null) = h
    /\ LET inst == Assign(habits[h], data)
           res == save(h, inst, IF own THEN inst.is_pleasant
                                ELSE StoredIsPleasant(inst.related_habit))
       IN  /\ habits' = IF res = "ok" THEN WriteHabit(h, inst) ELSE habits
           /\ last' = Response("model_save", h, habits[h].user, res, 0)
    /\ effects' = NoEffects
    /\ UNCHANGED <<today, ticks, users, nextHabitId, completions, pc, req, probe, chat, run>>

\* tests.py:111-148  habit.full_clean() on a Habit instance built for user u
\* from `data` and not saved
FullClean(u, data) ==
    /\ u \in users
    /\ data.related_habit # Null => data.related_habit \in DOMAIN habits
    /\ LET inst == NewHabit(u, data)
       IN  /\ probe' = inst
           /\ last' = Response("full_clean", Null, u,
                               full_clean(inst, StoredIsPleasant(inst.related_habit)), 0)
    /\ effects' = NoEffects
    /\ UNCHANGED <<today, ticks, users, habits, nextHabitId, completions, pc, req, chat, run>>

\* tests.py:167-183  validate_frequency(value) called on its own: "ok", or
\* the ValidationError it raises
ValidateFrequency(value) ==
    /\ probe' = [frequency |-> value]
    /\ last' = Response("validate_frequency", Null, NoUser,
                        IF validate_frequency(value) THEN "ok" ELSE "frequency_over_7", 0)
    /\ effects' = NoEffects
    /\ UNCHANGED <<today, ticks, users, habits, nextHabitId, completions, pc, req, chat, run>>

\* views.py:13-24  ModelViewSet.destroy by the habit's owner, with the
\* cascades of models.py:29-35 and models.py:99-101
DeleteHabit(h) ==
    /\ h \in DOMAIN habits
    /\ habits' = CascadeHabits({h})
    /\ completions' = CascadeCompletions({h}, {})
    /\ last' = Response("delete_habit", h, habits[h].user, "ok", 0)
    /\ effects' = NoEffects
    /\ UNCHANGED <<today, ticks, users, nextHabitId, pc, req, probe, chat, run>>

\* views.py:13-31 with permissions.py:9-12  DELETE by user u on habit h:
\* get_object() on the queryset of own and public habits, the owner check,
\* and the cascades
DestroyHabit(u, h) ==
    /\ u \in users
    /\ h \in DOMAIN habits
    /\ LET res == OwnerAccess(u, h)
       IN  /\ habits' = IF res = "ok" THEN CascadeHabits({h}) ELSE habits
           /\ completions' = IF res = "ok" THEN CascadeCompletions({h}, {}) ELSE completions
           /\ last' = Response("delete_habit", h, u, res, 0)
    /\ effects' = NoEffects
    /\ UNCHANGED <<today, ticks, users, nextHabitId, pc, req, probe, chat, run>>

\* users/views.py:17-23  ModelViewSet.destroy of a user, with the cascades of
\* models.py:20-22 and models.py:99-102
DeleteUser(u) ==
    /\ u \in users
    /\ LET owned == {h \in DOMAIN habits : habits[h].user = u}
       IN  /\ habits' = CascadeHabits(owned)
           /\ completions' = CascadeCompletions(owned, {u})
    /\ users' = users \ {u}
    /\ chat' = chat \ {u}
    /\ last' = Response("delete_user", Null, u, "ok", 0)
    /\ effects' = NoEffects
    /\ UNCHANGED <<today, ticks, nextHabitId, pc, req, probe, run>>

---------------------------------------------------------------------------
(* Reminders *)

\* what a call of the Telegram gateway can end in: a 2xx answer with a JSON
\* body, an answer that is not 2xx, no answer (both RequestException), and
\* any other exception
GatewayOutcomes == {"ok", "http_error", "network_error", "exception"}

\* services.py:20-37  TelegramService.send_message when the gateway call
\* ends in g: the parsed answer, None, or the exception that leaves it
send_message(g) ==
    IF g = "ok" THEN "json"
    ELSE IF g \in {"http_error", "network_error"} THEN "None" ELSE "raised"

\* services.py:71-121  HabitReminderService.send_reminder_notification for
\* user u when a gateway call would end in g: what it returns ("raised" when
\* an exception leaves it), whether the gateway is called, and the level of
\* the log record it writes (the warning holds the text of the message)
send_reminder_notification(u, g) ==
    IF u \in chat
    THEN [returned |-> IF send_message(g) = "raised" THEN "raised" ELSE "True",
          gateway |-> TRUE,
          logged |-> IF send_message(g) = "json" THEN "info"
                     ELSE IF send_message(g) = "None" THEN "error" ELSE "none"]
    ELSE [returned |-> "True", gateway |-> FALSE, logged |-> "warning"]

\* the effects of one call for habit h: the call and its kind or reason, the
\* gateway call and how it ended, the log record
CallEffects(u, h, kind, g) ==
    [called |-> h :> kind,
     gateway |-> IF send_reminder_notification(u, g).gateway THEN h :> g ELSE <<>>,
     logged |-> h :> send_reminder_notification(u, g).logged,
     fault |-> FALSE,
     day |-> today,
     repeat |-> FALSE]

\* tests.py:450-464  send_reminder_notification(user, habit, message_type)
\* called on its own
SendReminder(u, h, kind, g) ==
    /\ u \in users
    /\ h \in DOMAIN habits
    /\ effects' = CallEffects(u, h, kind, g)
    /\ last' = Response("send_reminder", h, u, send_reminder_notification(u, g).returned, 0)
    /\ UNCHANGED <<today, ticks, users, habits, nextHabitId, completions, pc, req, probe, chat, run>>

\* users/views.py:17-23, users/models.py:11-13  the user's telegram_chat_id
\* is set (has) or cleared
SetChat(u, has) ==
    /\ u \in users
    /\ chat' = IF has THEN chat \cup {u} ELSE chat \ {u}
    /\ last' = Response("set_chat", Null, u, "ok", 0)
    /\ effects' = NoEffects
    /\ UNCHANGED <<today, ticks, users, habits, nextHabitId, completions, pc, req, probe, run>>

---------------------------------------------------------------------------
(* Scheduled jobs *)

\* tasks.py:150-169  cleanup_old_completions
cleanup_old_completions ==
    LET ninety_days_ago == today - RetentionDays
        old_completions == {e \in Rows : e.date < ninety_days_ago}
        deleted_count == BagCardinality([e \in old_completions |-> completions[e]])
    IN  /\ completions' = [e \in Rows \ old_completions |-> completions[e]]
        /\ last' = Response("cleanup", Null, NoUser, "ok", deleted_count)
        /\ effects' = NoEffects
        /\ UNCHANGED <<today, ticks, users, habits, nextHabitId, pc, req, probe, chat, run>>

\* a run of a job with no fault of the repository
NoFault == -1

\* the points at which the repository can raise during a run over the
\* habits: at the first query (0), or at the query made for a habit after k
\* habits were processed
FaultPoints == {NoFault, 0} \cup {k \in 0..Cardinality(DOMAIN habits) : k < Cardinality(DOMAIN habits)}

\* models.py:55  ordering = ["id"]: the habits a run has processed when the
\* repository raises at point `fault`
Processed(fault) ==
    IF fault = NoFault
    THEN DOMAIN habits
    ELSE {h \in DOMAIN habits : Cardinality({x \in DOMAIN habits : x < h}) < fault}

\* tasks.py:19, 59-61 (and 70, 104-106; 115, 145-147; 156, 167-169; 178,
\* 215-217)  the try / except Exception around the body of a task: what the
\* run returns when the body raised, and when it did not
job_boundary_propagates(raised, summary) == IF raised THEN "raised" ELSE summary
job_boundary(raised, summary) == IF raised THEN "error" ELSE summary

\* what the gateway calls of a run end in: one outcome for each of the
\* `calls` that reaches the gateway
GatewayRuns(calls) ==
    [{h \in calls : send_reminder_notification(habits[h].user, "ok").gateway} -> GatewayOutcomes]

\* the call of send_reminder_notification a run makes for habit h
Sent(h, gw) ==
    send_reminder_notification(habits[h].user, IF h \in DOMAIN gw THEN gw[h] ELSE "ok")

\* tasks.py:41-52 (88-97, 127-138)  the calls of send_reminder_notification
\* for the habits in `calls`, each inside its own try / except Exception;
\* reason[h] is the kind or the reason of the message, gw[h] what the
\* gateway call for h ends in, `fault` whether the repository raised; the
\* day of the run is kept, and whether the run repeats a run of the same job
\* `op` that ended on the same day with no operation in between
JobEffects(op, calls, reason, gw, fault) ==
    [called |-> [h \in calls |-> reason[h]],
     gateway |-> gw,
     logged |-> [h \in calls |-> Sent(h, gw).logged],
     fault |-> fault,
     day |-> today,
     repeat |-> (last.op = op /\ ~effects.fault /\ effects.day = today)]

\* reminded_habits_count: the calls that returned
RemindedCount(calls, gw) ==
    Cardinality({h \in calls : Sent(h, gw).returned # "raised"})

\* the completions of habit h by its owner (filter(user=habit.user))
OwnCompletions(h) == {e \in CompletionsOf(h) : e.user = habits[h].user}

\* the decision that does not look at the creation date of a habit that was
\* never completed
InactiveReasonNoCreatedAt(h) ==
    LET seven_days_ago == today - StaleDays
    IN  IF OwnCompletions(h) = {}
        THEN "never completed"
        ELSE IF Max({e.date : e \in OwnCompletions(h)}) < seven_days_ago
             THEN "not completed for more than 7 days" ELSE "none"

\* the decision with "at least 7 days" in place of "more than 7 days"
InactiveReasonAtLeast(h) ==
    LET seven_days_ago == today - StaleDays
    IN  IF OwnCompletions(h) = {}
        THEN IF habits[h].created_at <= seven_days_ago
             THEN "never completed" ELSE "none"
        ELSE IF Max({e.date : e \in OwnCompletions(h)}) <= seven_days_ago
             THEN "not completed for more than 7 days" ELSE "none"

\* tasks.py:20-38  the decision of check_habit_completions for habit h: the
\* reason of the reminder, or "none"
InactiveReason(h) ==
    LET seven_days_ago == today - StaleDays
    IN  IF OwnCompletions(h) = {}
        THEN IF habits[h].created_at < seven_days_ago
             THEN "never completed" ELSE "none"
        ELSE IF Max({e.date : e \in OwnCompletions(h)}) < seven_days_ago
             THEN "not completed for more than 7 days" ELSE "none"

\* the result and the effects of a job that sends reminders of kind
\* `reason` for the habits in `calls`
RunReminders(op, calls, reason, gw, fault) ==
    /\ gw \in GatewayRuns(calls)
    /\ effects' = JobEffects(op, calls, reason, gw, fault # NoFault)
    /\ last' = Response(op, Null, NoUser, job_boundary(fault # NoFault, "ok"),
                        IF fault # NoFault THEN 0 ELSE RemindedCount(calls, gw))
    /\ UNCHANGED <<today, ticks, users, habits, nextHabitId, completions, pc, req, probe, chat, run>>

\* a run that skips the habits the run before it has reminded
CheckCallsOnce(fault) ==
    {h \in Processed(fault) :
        /\ InactiveReason(h) # "none"
        /\ ~(last.op = "check_habit_completions" /\ h \in DOMAIN effects.called)}

\* tasks.py:23-39  the habits for which a run of check_habit_completions
\* that the repository fails at point `fault` calls the dispatcher
CheckCalls(fault) == {h \in Processed(fault) : InactiveReason(h) # "none"}

\* tasks.py:13-61  check_habit_completions
check_habit_completions(gw, fault) ==
    /\ fault \in FaultPoints
    /\ RunReminders("check_habit_completions", CheckCalls(fault),
                    [h \in DOMAIN habits |-> InactiveReason(h)], gw, fault)

\* tasks.py:119-126  the habits for which a run of send_morning_reminders
\* calls the dispatcher
MorningCalls(fault) ==
    {h \in Processed(fault) : \A e \in OwnCompletions(h) : e.date # today}

\* tasks.py:109-147  send_morning_reminders
send_morning_reminders(gw, fault) ==
    /\ fault \in FaultPoints
    /\ RunReminders("send_morning_reminders", MorningCalls(fault),
                    [h \in DOMAIN habits |-> "morning"], gw, fault)

\* tasks.py:72-80  the habits send_daily_reminders selects when it runs at
\* `now` minutes into the day: time__gte = current_time, time__lte =
\* time_end, both times of day
DueAt(now) ==
    LET current_time == now
        time_end == (now + Hour) % MinutesPerDay
    IN  {h \in DOMAIN habits :
            habits[h].time >= current_time /\ habits[h].time <= time_end}

\* tasks.py:78-87  the habits for which a run of send_daily_reminders calls
\* the dispatcher; `due` are the habits whose time lies between now and an
\* hour from now
DailyCalls(due, fault) ==
    {h \in Processed(fault) \cap due : \A e \in OwnCompletions(h) : e.date # today}

\* tasks.py:64-106  send_daily_reminders
send_daily_reminders(due, gw, fault) ==
    /\ fault \in FaultPoints
    /\ RunReminders("send_daily_reminders", DailyCalls(due, fault),
                    [h \in DOMAIN habits |-> "daily"], gw, fault)

\* the retention job with "90 days or more" in place of "more than 90 days"
RunCleanupAtNinety(fault) ==
    LET ninety_days_ago == today - RetentionDays
        old_completions == {e \in Rows : e.date <= ninety_days_ago}
        deleted_count == BagCardinality([e \in old_completions |-> completions[e]])
    IN  /\ completions' = IF fault THEN completions
                          ELSE [e \in Rows \ old_completions |-> completions[e]]
        /\ last' = Response("cleanup", Null, NoUser, job_boundary(fault, "ok"),
                            IF fault THEN 0 ELSE deleted_count)
        /\ effects' = [NoEffects EXCEPT !.fault = fault]
        /\ UNCHANGED <<today, ticks, users, habits, nextHabitId, pc, req, probe, chat, run>>

\* tasks.py:150-169  cleanup_old_completions when the repository can raise:
\* count() and delete() run or nothing is deleted
RunCleanup(fault) ==
    LET ninety_days_ago == today - RetentionDays
        old_completions == {e \in Rows : e.date < ninety_days_ago}
        deleted_count == BagCardinality([e \in old_completions |-> completions[e]])
    IN  /\ completions' = IF fault THEN completions
                          ELSE [e \in Rows \ old_completions |-> completions[e]]
        /\ last' = Response("cleanup", Null, NoUser, job_boundary(fault, "ok"),
                            IF fault THEN 0 ELSE deleted_count)
        /\ effects' = [NoEffects EXCEPT !.fault = fault]
        /\ UNCHANGED <<today, ticks, users, habits, nextHabitId, pc, req, probe, chat, run>>

\* tasks.py:172-217  calculate_habit_statistics: the stats it returns hold
\* the number of completions
calculate_habit_statistics(fault) ==
    /\ last' = Response("calculate_habit_statistics", Null, NoUser, job_boundary(fault, "ok"),
                        IF fault THEN 0 ELSE BagCardinality(completions))
    /\ effects' = [NoEffects EXCEPT !.fault = fault]
    /\ UNCHANGED <<today, ticks, users, habits, nextHabitId, completions, pc, req, probe, chat, run>>

---------------------------------------------------------------------------
(* A run of a reminder job, step by step *)

\* what a call of the Telegram gateway can do: end in one of the outcomes,
\* or never answer
GatewayBehaviours == GatewayOutcomes \cup {"never_answers"}

\* models.py:55  ordering = ["id"]: the rows of Habit.objects.all() in the
\* order the loop visits them
InOrder(ids) == SelectSeq([i \in 1..(nextHabitId - 1) |-> i], LAMBDA i : i \in ids)

\* tasks.py:24-38, 119-123  whether the loop of `job` sends a reminder for
\* habit h
Qualifies(job, h) ==
    IF job = "check_habit_completions"
    THEN InactiveReason(h) # "none"
    ELSE \A e \in OwnCompletions(h) : e.date # today

\* how many times the run has called send_reminder_notification for habit h
Attempts(h) == IF h \in DOMAIN run.attempts THEN run.attempts[h] ELSE 0

\* tasks.py:19-23, 115-119  the task starts and fetches the habits
RunStart(job) ==
    /\ run.pc \in {"idle", "done"}
    /\ run' = [job |-> job, pc |-> "loop", todo |-> InOrder(DOMAIN habits),
               h |-> Null, count |-> 0, attempts |-> <<>>, raised |-> {}]
    /\ UNCHANGED <<today, ticks, users, habits, nextHabitId, completions, pc, req,
                   last, probe, chat, effects>>

\* tasks.py:23-39, 54-57 (119-126, 140-143)  the loop takes the next habit
\* and decides, or finds none left and returns the summary
RunLoop ==
    /\ run.pc = "loop"
    /\ IF run.todo = <<>>
       THEN /\ run' = [run EXCEPT !.pc = "done", !.h = Null]
            /\ last' = Response(run.job, Null, NoUser, job_boundary(FALSE, "ok"), run.count)
            /\ effects' = NoEffects
       ELSE /\ LET h == Head(run.todo)
               IN  run' = IF Qualifies(run.job, h)
                          THEN [run EXCEPT !.pc = "sending", !.h = h,
                                           !.todo = Tail(run.todo),
                                           !.attempts = (h :> Attempts(h) + 1) @@ run.attempts]
                          ELSE [run EXCEPT !.todo = Tail(run.todo), !.h = h]
            /\ UNCHANGED <<last, effects>>
    /\ UNCHANGED <<today, ticks, users, habits, nextHabitId, completions, pc, req,
                   probe, chat>>

\* the same step when a send that raised ends the run, as the body of a
\* task with no try / except around the send would
RunSendNoInnerTry(g) ==
    /\ run.pc = "sending"
    /\ g \in GatewayBehaviours
    /\ habits[run.h].user \notin chat => g = "ok"
    /\ IF habits[run.h].user \in chat /\ g = "never_answers"
       THEN /\ run' = [run EXCEPT !.pc = "waiting"]
            /\ UNCHANGED last
       ELSE IF send_reminder_notification(habits[run.h].user, g).returned = "raised"
       THEN /\ run' = [run EXCEPT !.pc = "done", !.raised = run.raised \cup {run.h}]
            /\ last' = Response(run.job, Null, NoUser, job_boundary(TRUE, "ok"), 0)
       ELSE /\ run' = [run EXCEPT !.pc = "loop", !.count = run.count + 1]
            /\ UNCHANGED last
    /\ UNCHANGED <<today, ticks, users, habits, nextHabitId, completions, pc, req,
                   probe, chat, effects>>

\* tasks.py:41-52 (127-138) with services.py:107-121 and services.py:31-37
\* the send for the habit the loop is at, when the gateway call does g.
\* requests.post is called with no timeout: a gateway that never answers
\* leaves the run waiting.  An exception of the send is caught and logged,
\* and the habit is not counted.
RunSend(g) ==
    /\ run.pc = "sending"
    /\ g \in GatewayBehaviours
    /\ habits[run.h].user \notin chat => g = "ok"
    /\ run' = IF habits[run.h].user \in chat /\ g = "never_answers"
              THEN [run EXCEPT !.pc = "waiting"]
              ELSE IF send_reminder_notification(habits[run.h].user, g).returned = "raised"
              THEN [run EXCEPT !.pc = "loop", !.raised = run.raised \cup {run.h}]
              ELSE [run EXCEPT !.pc = "loop", !.count = run.count + 1]
    /\ UNCHANGED <<today, ticks, users, habits, nextHabitId, completions, pc, req,
                   last, probe, chat, effects>>

\* tasks.py:59-61 (145-147)  the repository raises in the loop and the task
\* returns the failure summary
RunFault ==
    /\ run.pc = "loop"
    /\ run' = [run EXCEPT !.pc = "done", !.h = Null]
    /\ last' = Response(run.job, Null, NoUser, job_boundary(TRUE, "ok"), 0)
    /\ effects' = [NoEffects EXCEPT !.fault = TRUE]
    /\ UNCHANGED <<today, ticks, users, habits, nextHabitId, completions, pc, req,
                   probe, chat>>

---------------------------------------------------------------------------
(* The clock *)

\* the date moves on; no request is answered by it
Tick(d) ==
    /\ today' = today + d
    /\ ticks' = ticks + 1
    /\ UNCHANGED <<users, habits, nextHabitId, completions, pc, req, last, probe, chat, effects, run>>

---------------------------------------------------------------------------
(* Specifications *)

NoHabits == [h \in {} |-> Null]
NoProbe == [duration |-> 0]

Init ==
    /\ today = 0
    /\ ticks = 0
    /\ users = AllUsers
    /\ habits = NoHabits
    /\ nextHabitId = 1
    /\ completions = EmptyBag
    /\ pc = [p \in Procs |-> "idle"]
    /\ req = [p \in Procs |-> [h |-> Null, u |-> NoUser, d |-> 0]]
    /\ last = Response("init", Null, NoUser, "ok", 0)
    /\ probe = NoProbe
    /\ chat = {}
    /\ run = NoRun
    /\ effects = NoEffects

\* tests.py:29-36  the habit the tests create
PlainHabit ==
    [is_pleasant |-> FALSE, related_habit |-> Null, reward |-> NullText,
     duration |-> 60, frequency |-> DAILY, is_public |-> FALSE]

\* Spec: the completion tracker under interleaved requests
TrackCreate == nextHabitId <= TrackHabits /\ \E u \in AllUsers : ModelCreate(u, PlainHabit)
TrackDeleteHabit == \E h \in DOMAIN habits : DeleteHabit(h)
TrackDeleteUser == \E u \in AllUsers : DeleteUser(u)
TrackBegin == \E p \in Procs, u \in AllUsers, h \in DOMAIN habits : MarkBegin(p, u, h)
TrackInsert == \E p \in Procs : MarkInsert(p)
TrackTick == ticks < TrackTicks /\ \E d \in TickSteps : Tick(d)

Next ==
    \/ TrackCreate
    \/ TrackDeleteHabit
    \/ TrackDeleteUser
    \/ TrackBegin
    \/ TrackInsert
    \/ cleanup_old_completions
    \/ TrackTick

Spec == Init /\ [][Next]_vars

---------------------------------------------------------------------------
\* SeqSpec: requests one at a time; the tracker, the updates of a habit, the
\* retention job and the clock

\* the request data of the updates SeqSpec sends: a valid change, a change
\* that breaks a field rule, and a full update
SeqPayloads ==
    {[reward |-> "gift"],
     [is_pleasant |-> TRUE, reward |-> "gift"],
     [duration |-> 30, reward |-> NullText]}

\* SeqSpec follows one habit through its life
SeqCreate == habits = NoHabits /\ \E u \in AllUsers : ModelCreate(u, PlainHabit)
SeqMark == \E u \in AllUsers, h \in DOMAIN habits : MarkCompleted(u, h)
SeqUpdate ==
    \E u \in AllUsers, h \in DOMAIN habits, data \in SeqPayloads, partial \in BOOLEAN :
        SerializerUpdate(u, h, data, partial)
SeqToggle == \E u \in AllUsers, h \in DOMAIN habits : TogglePublic(u, h)
SeqModelSave == \E h \in DOMAIN habits, data \in SeqPayloads : ModelSave(h, data, FALSE)
SeqTick == ticks < SeqTicks /\ \E d \in TickSteps : Tick(d)

SeqNext ==
    \/ SeqCreate
    \/ SeqMark
    \/ SeqUpdate
    \/ SeqToggle
    \/ SeqModelSave
    \/ cleanup_old_completions
    \/ SeqTick

SeqSpec == Init /\ [][SeqNext]_vars

---------------------------------------------------------------------------
\* OwnerSpec: one habit and its owner, who keeps sending requests for it
\* while the days pass; no scheduled job runs

OwnerMark == \E h \in DOMAIN habits : MarkCompleted(habits[h].user, h)
OwnerUpdate ==
    \E h \in DOMAIN habits, data \in SeqPayloads, partial \in BOOLEAN :
        SerializerUpdate(habits[h].user, h, data, partial)
OwnerToggle == \E h \in DOMAIN habits : TogglePublic(habits[h].user, h)

OwnerNext ==
    \/ SeqCreate
    \/ OwnerMark
    \/ OwnerUpdate
    \/ OwnerToggle
    \/ SeqTick

\* the owner never gives up: a request that would change something is sent
OwnerSpec ==
    /\ Init
    /\ [][OwnerNext]_vars
    /\ WF_vars(OwnerMark)
    /\ WF_vars(OwnerUpdate)
    /\ WF_vars(OwnerToggle)

---------------------------------------------------------------------------
\* LinkSpec: creates and updates of habits with every combination of
\* is_pleasant, related_habit and reward, through the serializer and through
\* the model; the clock stands still

\* LinkSpec: the Habit table hands out the ids 1..LinkHabits
LinkHabits == 2

\* the values a request sends for reward
Rewards == {NullText, "", "gift"}

\* the request data with the fields `keys`, taken from `full`
Payload(keys, full) == [k \in keys |-> full[k]]

\* what the three fields can be sent as, with the duration a full update needs
LinkValues ==
    [is_pleasant : BOOLEAN, related_habit : {Null} \cup (1..LinkHabits),
     reward : Rewards, duration : {30}]
LinkKeys == SUBSET {"is_pleasant", "related_habit", "reward"}

\* the request data of a PATCH, and of a POST or a PUT
LinkPartial == {Payload(keys, full) : keys \in LinkKeys, full \in LinkValues}
LinkFull == {Payload(keys \cup {"duration"}, full) : keys \in LinkKeys, full \in LinkValues}

LinkCreate ==
    /\ nextHabitId <= LinkHabits
    /\ \E data \in LinkFull : SerializerCreate("u1", data)
LinkModelCreate ==
    /\ nextHabitId <= LinkHabits
    /\ \E full \in LinkValues :
         ModelCreate("u1", [k \in DOMAIN PlainHabit |->
                               IF k \in DOMAIN full THEN full[k] ELSE PlainHabit[k]])
LinkUpdate ==
    \E h \in DOMAIN habits :
        \/ \E data \in LinkPartial : SerializerUpdate(habits[h].user, h, data, TRUE)
        \/ \E data \in LinkFull : SerializerUpdate(habits[h].user, h, data, FALSE)
LinkModelSave ==
    \E h \in DOMAIN habits, data \in LinkPartial, own \in BOOLEAN :
        ModelSave(h, data, own)

LinkNext ==
    \/ LinkCreate
    \/ LinkModelCreate
    \/ LinkUpdate
    \/ LinkModelSave

LinkSpec == Init /\ [][LinkNext]_vars

---------------------------------------------------------------------------
\* ValidateSpec: the validation of a habit's fields, by full_clean() on an
\* instance and by the serializer on the data of a create and of an update

\* ValidateSpec: the Habit table hands out the ids 1..ValidateHabits
ValidateHabits == 1

\* the durations sent: below, at and above the limits of models.py:46
Durations == {-1, 0, MinDuration, 60, MaxDuration, MaxDuration + 1}

\* the instances full_clean() is called on
ValidateValues ==
    [is_pleasant : BOOLEAN, related_habit : {Null}, reward : {NullText, "gift"},
     duration : Durations, frequency : {DAILY, MONTHLY}, is_public : {FALSE}]

ValidateFullClean == \E data \in ValidateValues : FullClean("u1", data)
ValidateCreate ==
    /\ nextHabitId <= ValidateHabits
    /\ \E d \in Durations : SerializerCreate("u1", [duration |-> d])
ValidateUpdate ==
    \E h \in DOMAIN habits, d \in Durations, partial \in BOOLEAN :
        SerializerUpdate(habits[h].user, h, [duration |-> d], partial)

ValidateNext ==
    \/ ValidateFullClean
    \/ ValidateCreate
    \/ ValidateUpdate

ValidateSpec == Init /\ [][ValidateNext]_vars

---------------------------------------------------------------------------
\* PersistSpec: every operation that saves a habit, with durations and
\* frequencies inside and outside their ranges; validate_frequency on its own

\* PersistSpec: the Habit table hands out the ids 1..PersistHabits
PersistHabits == 1

\* the durations and the frequencies sent: around the limits of models.py:46
\* and validators.py:10, a value that is no choice of models.py:10-12, and
\* below the column's CHECK
PersistDurations == {-1, 0, 60, MaxDuration + 1}
Frequencies == {-1, 0, DAILY, 3, WEEKLY, MaxFrequency + 1, MONTHLY}

\* the request data of PersistSpec: one of the two fields, out of every value
PersistData ==
    {[duration |-> d] : d \in PersistDurations} \cup
    {[frequency |-> f] : f \in Frequencies}

\* the data of a create: the duration is required
WithDuration(data) ==
    [k \in DOMAIN data \cup {"duration"} |->
        IF k \in DOMAIN data THEN data[k] ELSE PlainHabit.duration]

PersistCreate ==
    /\ nextHabitId <= PersistHabits
    /\ \E data \in PersistData : SerializerCreate("u1", WithDuration(data))
PersistModelCreate ==
    /\ nextHabitId <= PersistHabits
    /\ \E data \in PersistData : ModelCreate("u1", Assign(PlainHabit, data))
PersistUpdate ==
    \E h \in DOMAIN habits, data \in PersistData, partial \in BOOLEAN :
        SerializerUpdate(habits[h].user, h,
                         IF partial THEN data ELSE WithDuration(data), partial)
PersistModelSave ==
    \E h \in DOMAIN habits, data \in PersistData : ModelSave(h, data, FALSE)
PersistToggle == \E h \in DOMAIN habits : TogglePublic(habits[h].user, h)
PersistValidateFrequency == \E value \in Frequencies : ValidateFrequency(value)

PersistNext ==
    \/ PersistCreate
    \/ PersistModelCreate
    \/ PersistUpdate
    \/ PersistModelSave
    \/ PersistToggle
    \/ PersistValidateFrequency

PersistSpec == Init /\ [][PersistNext]_vars

---------------------------------------------------------------------------
\* OrderSpec: creates and full updates whose data break several field rules
\* at once

\* OrderSpec: the Habit table hands out the ids 1..OrderHabits
OrderHabits == 2

\* the request data: every field of the rules, the duration inside and
\* above its range
OrderPayloads ==
    [is_pleasant : BOOLEAN, related_habit : {Null} \cup (1..OrderHabits),
     reward : {NullText, "gift"}, duration : {60, MaxDuration + 1}]

OrderCreate ==
    /\ nextHabitId <= OrderHabits
    /\ \E data \in OrderPayloads : SerializerCreate("u1", data)
OrderModelCreate ==
    /\ nextHabitId <= OrderHabits
    /\ \E data \in OrderPayloads : ModelCreate("u1", Assign(PlainHabit, data))
OrderUpdate ==
    \E h \in DOMAIN habits, data \in OrderPayloads :
        SerializerUpdate(habits[h].user, h, data, FALSE)

OrderNext ==
    \/ OrderCreate
    \/ OrderModelCreate
    \/ OrderUpdate

OrderSpec == Init /\ [][OrderNext]_vars

---------------------------------------------------------------------------
\* RemindSpec: reminders sent one by one, to users with and without a
\* Telegram chat, with every outcome of the gateway call

\* RemindSpec: the Habit table hands out the ids 1..RemindHabits
RemindHabits == 1

\* services.py:81-105  the kinds of message
MessageTypes == {"daily", "morning", "inactive"}

RemindCreate ==
    /\ nextHabitId <= RemindHabits
    /\ \E u \in AllUsers : ModelCreate(u, PlainHabit)
RemindSetChat == \E u \in AllUsers, has \in BOOLEAN : SetChat(u, has)
RemindSend ==
    \E u \in AllUsers, h \in DOMAIN habits, kind \in MessageTypes, g \in GatewayOutcomes :
        SendReminder(u, h, kind, g)

RemindNext ==
    \/ RemindCreate
    \/ RemindSetChat
    \/ RemindSend

RemindSpec == Init /\ [][RemindNext]_vars

---------------------------------------------------------------------------
\* JobSpec: the five scheduled jobs, with every outcome of the gateway calls
\* and with the repository raising at any point of a run, over habits that
\* are created and completed while the days pass

\* JobSpec: the clock is advanced at most this many times
JobTicks == 2
\* JobSpec: the Habit table hands out the ids 1..JobHabits
JobHabits == 2

\* by how many days one step of the clock advances it in JobSpec
JobSteps == {1, StaleDays}

JobCreate == nextHabitId <= JobHabits /\ ModelCreate("u1", PlainHabit)
JobMark == \E h \in DOMAIN habits : MarkCompleted(habits[h].user, h)
JobSetChat == \E has \in BOOLEAN : SetChat("u1", has)
JobTick == ticks < JobTicks /\ \E d \in JobSteps : Tick(d)
JobCheck ==
    \E fault \in FaultPoints : \E gw \in GatewayRuns(CheckCalls(fault)) :
        check_habit_completions(gw, fault)
JobMorning ==
    \E fault \in FaultPoints : \E gw \in GatewayRuns(MorningCalls(fault)) :
        send_morning_reminders(gw, fault)
JobDaily ==
    \E due \in SUBSET DOMAIN habits, fault \in FaultPoints :
        \E gw \in GatewayRuns(DailyCalls(due, fault)) :
            send_daily_reminders(due, gw, fault)
JobCleanup == \E fault \in BOOLEAN : RunCleanup(fault)
JobStatistics == \E fault \in BOOLEAN : calculate_habit_statistics(fault)

JobNext ==
    \/ JobCreate
    \/ JobMark
    \/ JobSetChat
    \/ JobTick
    \/ JobCheck
    \/ JobMorning
    \/ JobDaily
    \/ JobCleanup
    \/ JobStatistics

JobSpec == Init /\ [][JobNext]_vars

---------------------------------------------------------------------------
(* Properties of the completion tracker under interleaved requests (Spec) *)

\* C1: in every reachable state of interleaved mark_completed requests,
\* retention clean-ups and habit / user deletions, the HabitCompletion table
\* holds at most one row for any (habit, user, date).
C1_AtMostOnePerDay == \A e \in Rows : completions[e] = 1

\* C1, its case reached: two requests for the same habit, user and day both
\* passed the existence check, the second INSERT was refused and one row is
\* stored.
C1_SecondInsertRefused ==
    /\ last.op = "mark_insert"
    /\ last.res = "IntegrityError"
    /\ BagIn(Completion(last.h, last.u, today), completions)
    /\ completions[Completion(last.h, last.u, today)] = 1

\* C3: when two mark_completed requests for the same (habit, user, today)
\* interleave, the request whose INSERT meets the stored row is answered with
\* AlreadyCompletedToday.
C3_RaceIsAlreadyCompleted ==
    ( /\ last.op = "mark_insert"
      /\ last.res # "ok"
      /\ BagIn(Completion(last.h, last.u, today), completions) )
        => last.res = "AlreadyCompletedToday"

---------------------------------------------------------------------------
(* Properties of the tracker and of the updates, one request at a time
   (SeqSpec) *)

\* the completions of habit h by user u
Mine(h, u) == {e \in CompletionsOf(h) : e.user = u}

\* the days from the most recent completion of h by u to today
Gap(h, u) == today - Max({e.date : e \in Mine(h, u)})

\* the completions table with one more row (h, u, today)
OneMoreToday(h, u) == completions (+) SetToBag({Completion(h, u, today)})

\* C2: a mark_completed call made when a completion of (habit, user, today)
\* exists fails with AlreadyCompletedToday and leaves the completions
\* unchanged; the owner's call on a habit with no prior completion succeeds
\* and adds exactly one completion, dated today.
C2_DuplicateRefused ==
    [][\A u \in AllUsers, h \in DOMAIN habits :
         (last'.op = "mark_completed" /\ last'.u = u /\ last'.h = h
            /\ MarkCompleted(u, h)) =>
           /\ BagIn(Completion(h, u, today), completions) =>
                /\ last'.res = "AlreadyCompletedToday"
                /\ completions' = completions
           /\ (OwnerAccess(u, h) = "ok" /\ Mine(h, u) = {}) =>
                /\ last'.res = "ok"
                /\ completions' = OneMoreToday(h, u)
                /\ BagCardinality(completions') = BagCardinality(completions) + 1
      ]_vars

\* C2, its case reached: a second call on the same day was refused while the
\* day's completion is stored.
C2_SecondCallRefused ==
    /\ last.op = "mark_completed"
    /\ last.res = "AlreadyCompletedToday"
    /\ BagIn(Completion(last.h, last.u, today), completions)

Lapsed(h) ==
    /\ \A e \in CompletionsOf(h) : today - e.date > 7
    /\ today - habits[h].created_at > 7

\* C6: an update of a stored habit (serializer update, toggle_public, model
\* save) that gets as far as persisting fails with HabitInconsistent exactly
\* when the habit has no completion in the trailing 7 days and was created
\* more than 7 days ago; no update answers HabitInconsistent otherwise; an
\* update of such a habit leaves the stored habit unchanged; the save of a
\* new habit never answers HabitInconsistent.
C6_InconsistentExactlyWhenLapsed ==
    [][/\ \A u \in AllUsers, h \in DOMAIN habits, data \in SeqPayloads,
             partial \in BOOLEAN :
            (last'.op = "update" /\ last'.u = u /\ last'.h = h
                /\ SerializerUpdate(u, h, data, partial)) =>
              /\ last'.res = "HabitInconsistent" => Lapsed(h)
              /\ ( /\ OwnerAccess(u, h) = "ok"
                   /\ SerializerFields(data, partial) = "ok"
                   /\ validate(h, data) = "ok" ) =>
                     (last'.res = "HabitInconsistent" <=> Lapsed(h))
              /\ (OwnerAccess(u, h) = "ok" /\ Lapsed(h)) =>
                     (last'.res # "ok" /\ habits' = habits)
       /\ \A u \in AllUsers, h \in DOMAIN habits :
            (last'.op = "toggle_public" /\ last'.u = u /\ last'.h = h
                /\ TogglePublic(u, h)) =>
              /\ OwnerAccess(u, h) = "ok" =>
                     (last'.res = "HabitInconsistent" <=> Lapsed(h))
              /\ last'.res = "HabitInconsistent" => habits' = habits
              /\ OwnerAccess(u, h) # "ok" => last'.res # "HabitInconsistent"
       /\ \A h \in DOMAIN habits, data \in SeqPayloads :
            (last'.op = "model_save" /\ last'.h = h /\ ModelSave(h, data, FALSE)) =>
              /\ last'.res = "HabitInconsistent" => Lapsed(h)
              /\ clean(Assign(habits[h], data), FALSE) = "ok" =>
                     (last'.res = "HabitInconsistent" <=> Lapsed(h))
              /\ Lapsed(h) => (last'.res # "ok" /\ habits' = habits)
       /\ \A u \in AllUsers :
            (last'.op = "model_create" /\ ModelCreate(u, PlainHabit)) =>
                last'.res = "ok"
      ]_vars

\* C6, its case reached: the owner's update of a habit created 8 days ago
\* and never completed was refused with HabitInconsistent.
C6_RefusedOnDayEight ==
    /\ last.op \in {"update", "toggle_public", "model_save"}
    /\ last.res = "HabitInconsistent"
    /\ last.h \in DOMAIN habits
    /\ CompletionsOf(last.h) = {}
    /\ today - habits[last.h].created_at = 8

---------------------------------------------------------------------------
(* Properties of a lapsed habit and its owner (OwnerSpec) *)

\* the owner's mark_completed on some habit fails with StaleHabit and the
\* updates of that habit fail with HabitInconsistent
StaleForOwner ==
    \E h \in DOMAIN habits :
        /\ MarkReads(h, habits[h].user) = "StaleHabit"
        /\ ~validate_habit_consistency(h, habits[h])

\* the owner's mark_completed has just succeeded
Resumed == last.op = "mark_completed" /\ last.res = "ok"

\* C5: a stale habit is recoverable by its owner: from a state where
\* mark_completed fails with StaleHabit and updates fail with
\* HabitInconsistent, the owner's requests on the habit (mark_completed,
\* update, toggle_public) lead to a mark_completed that succeeds.
C5_OwnerResumes == StaleForOwner ~> Resumed

---------------------------------------------------------------------------
(* Properties of the stored habits (LinkSpec) *)

\* the habit row holds a reward: a text that is not empty
HasReward(r) == r.reward # NullText /\ r.reward # ""

\* C7: after any sequence of creates and updates, through the serializer or
\* through the model, no stored habit is pleasant and holds a reward or a
\* related habit, and no stored habit holds both a reward and a related
\* habit.
C7_PleasantHasNeither ==
    \A h \in DOMAIN habits :
        /\ habits[h].is_pleasant =>
               (~HasReward(habits[h]) /\ habits[h].related_habit = Null)
        /\ ~(HasReward(habits[h]) /\ habits[h].related_habit # Null)

\* C7, its case reached: a request to make a habit pleasant that holds a
\* reward was refused, and the habit is stored as it was.
C7_PleasantRefusedForReward ==
    /\ last.op \in {"update", "model_save"}
    /\ last.res = "pleasant_has_reward"
    /\ last.h \in DOMAIN habits
    /\ habits[last.h].reward = "gift"
    /\ ~habits[last.h].is_pleasant

\* C8: in every reachable state, a habit whose related_habit is set
\* references a stored habit with is_pleasant = TRUE.
C8_RelatedIsPleasant ==
    \A h \in DOMAIN habits :
        habits[h].related_habit # Null =>
            /\ habits[h].related_habit \in DOMAIN habits
            /\ habits[habits[h].related_habit].is_pleasant

\* the habit reached from h by following n related_habit links, or Null
RECURSIVE NthLink(_, _)
NthLink(h, n) ==
    IF h \notin DOMAIN habits THEN Null
    ELSE IF n = 0 THEN h ELSE NthLink(habits[h].related_habit, n - 1)

\* C9: in every reachable state the related_habit links are acyclic: no
\* habit references itself and no chain of links returns to its start.
C9_LinksAcyclic ==
    \A h \in DOMAIN habits :
        \A n \in 1..Cardinality(DOMAIN habits) : NthLink(h, n) # h

---------------------------------------------------------------------------
(* Properties of the validation (ValidateSpec) *)

\* C10: with the other fields valid, the validation of a habit (full_clean
\* on an instance, the serializer on a create and on an update) fails for
\* every duration outside [1, 120], 0, negative values and 121 included, and
\* succeeds for every duration in [1, 120], 1 and 120 included.
C10_DurationInRange ==
    [][/\ \A data \in ValidateValues :
            ( /\ FullClean("u1", data)
              /\ ~(data.is_pleasant /\ data.reward = "gift")
              /\ data.frequency = DAILY ) =>
                (last'.res = "ok" <=> data.duration \in 1..120)
       /\ \A d \in Durations :
            SerializerCreate("u1", [duration |-> d]) =>
                /\ last'.res = "ok" <=> d \in 1..120
                /\ last'.res = "ok" => habits'[last'.h].duration = d
       /\ \A h \in DOMAIN habits, d \in Durations, partial \in BOOLEAN :
            SerializerUpdate(habits[h].user, h, [duration |-> d], partial) =>
                /\ last'.res = "ok" <=> d \in 1..120
                /\ last'.res # "ok" => habits' = habits
      ]_vars

\* C10, its case reached: full_clean() refused an instance whose duration is
\* 121 and whose other fields are valid.
C10_Refused121 ==
    /\ last.op = "full_clean"
    /\ last.res = "invalid_duration"
    /\ probe.duration = 121
    /\ ~probe.is_pleasant
    /\ probe.frequency = DAILY

---------------------------------------------------------------------------
(* Properties of the operations that save a habit (PersistSpec) *)

\* C11: the duration range is checked before every persist (create, update,
\* toggle_public, model save): no stored habit has a duration outside
\* [1, 120].
C11_StoredDurationInRange ==
    \A h \in DOMAIN habits : habits[h].duration \in 1..120

\* C12: validate_frequency accepts a value if and only if it lies in 1..7:
\* it passes for 1, 3 and 7 and raises for 0, for negative values and for
\* every value greater than 7.
C12_AcceptsOneToSeven ==
    last.op = "validate_frequency" =>
        (last.res = "ok" <=> probe.frequency \in 1..7)

\* C13: a create with otherwise valid fields is accepted for every frequency
\* from 1 to 7 and rejected for every frequency greater than 7, through the
\* serializer and through the model, and every stored habit has a frequency
\* in [1, 7].
C13_FrequencyOneToSevenOnCreate ==
    [][/\ \A f \in Frequencies :
            ( /\ last'.op = "create"
              /\ SerializerCreate("u1", WithDuration([frequency |-> f])) ) =>
                /\ f \in 1..7 => last'.res = "ok"
                /\ f > 7 => last'.res # "ok"
       /\ \A f \in Frequencies :
            ( /\ last'.op = "model_create"
              /\ ModelCreate("u1", Assign(PlainHabit, [frequency |-> f])) ) =>
                /\ f \in 1..7 => last'.res = "ok"
                /\ f > 7 => last'.res # "ok"
       /\ \A h \in DOMAIN habits' : habits'[h].frequency \in 1..7
      ]_vars

---------------------------------------------------------------------------
(* Properties of the order of the field rules (OrderSpec) *)

\* the first rule the habit `data` breaks, in the order: pleasant habit has
\* reward, pleasant habit has related habit, reward and related habit both
\* set, related habit not pleasant, duration out of range; "ok" when none
FirstBroken(data) ==
    IF data.is_pleasant /\ data.reward = "gift" THEN "pleasant_has_reward"
    ELSE IF data.is_pleasant /\ data.related_habit # Null THEN "pleasant_has_related"
    ELSE IF data.reward = "gift" /\ data.related_habit # Null THEN "reward_and_related"
    ELSE IF data.related_habit # Null /\ ~habits[data.related_habit].is_pleasant
         THEN "related_not_pleasant"
    ELSE IF data.duration \notin 1..120 THEN "duration"
    ELSE "ok"

\* the rule an answer names
RuleOf(res) == IF res \in {"invalid_duration", "duration_over_120"} THEN "duration" ELSE res

\* C14: when the data of a habit break several field rules at once, the
\* validation of a create reports the first broken rule in the fixed order
\* pleasant habit has reward, pleasant habit has related habit, reward and
\* related habit both set, related habit not pleasant, duration out of range.
C14_FirstBrokenRuleWins ==
    [][\A data \in OrderPayloads :
         ( /\ last'.op = "create"
           /\ data.related_habit # Null => data.related_habit \in DOMAIN habits
           /\ SerializerCreate("u1", data) ) =>
             RuleOf(last'.res) = FirstBroken(data)
      ]_vars

---------------------------------------------------------------------------
(* Properties of the two validation layers (LinkSpec) *)

\* the verdict of the persistence layer on instance inst stored under pk:
\* Habit.clean and validate_habit_before_save both pass
PersistenceAccepts(pk, inst) ==
    /\ clean(inst, StoredIsPleasant(inst.related_habit)) = "ok"
    /\ validate_habit_before_save(pk, inst) = "ok"

\* C15: HabitSerializer.validate and the persistence layer (Habit.clean with
\* validate_habit_before_save) give the same accept / reject verdict for
\* every habit, on a create and on an update, partial updates of a habit
\* that holds a reward or a related habit included.
C15_LayersAgree ==
    [][/\ \A h \in DOMAIN habits, data \in LinkPartial :
            ( /\ last'.op = "update"
              /\ last'.h = h
              /\ SerializerFields(data, TRUE) = "ok"
              /\ SerializerUpdate(habits[h].user, h, data, TRUE) ) =>
                (validate(h, data) = "ok"
                    <=> PersistenceAccepts(h, Assign(habits[h], data)))
       /\ \A data \in LinkFull :
            ( /\ last'.op = "create"
              /\ SerializerFields(data, FALSE) = "ok"
              /\ SerializerCreate("u1", data) ) =>
                (validate(Null, data) = "ok"
                    <=> PersistenceAccepts(Null, NewHabit("u1", Assign(PlainHabit, data))))
      ]_vars

---------------------------------------------------------------------------
(* Properties of the reminder service (RemindSpec) *)

\* C16: a reminder for a user with no Telegram chat returns delivered =
\* false, raises no exception, makes no gateway call and writes the message
\* to the local log.
C16_NoChannelNotDelivered ==
    (last.op = "send_reminder" /\ last.u \notin chat) =>
        /\ last.res = "False"
        /\ DOMAIN effects.gateway = {}
        /\ effects.logged[last.h] = "warning"

\* C17: a reminder for a user with a Telegram chat returns delivered = false
\* whenever the gateway call fails (no answer, or an answer that is not 2xx)
\* and delivered = true only when the gateway call succeeded; a gateway
\* failure never raises to the caller.
C17_DeliveredIffGatewayOk ==
    ( /\ last.op = "send_reminder"
      /\ last.u \in chat
      /\ effects.gateway[last.h] \in {"ok", "http_error", "network_error"} ) =>
        /\ effects.gateway[last.h] # "ok" => last.res = "False"
        /\ last.res = "True" => effects.gateway[last.h] = "ok"
        /\ last.res # "raised"

---------------------------------------------------------------------------
(* Properties of the scheduled jobs (JobSpec) *)

\* the results of the five scheduled jobs
JobOps ==
    {"check_habit_completions", "send_morning_reminders", "send_daily_reminders",
     "cleanup", "calculate_habit_statistics"}

\* one of the gateway calls of a run raises
DispatcherRaises(gw) == \E h \in DOMAIN gw : gw[h] = "exception"

\* C18: in each of the five scheduled jobs an exception of the repository is
\* caught at the job boundary and the run returns a failure summary; an
\* exception of the dispatcher is caught inside the loop, for the habit it
\* was raised for, and the run returns its ordinary summary; no run ends by
\* propagating an exception, and after a failed run every job can run.
C18_JobsNeverPropagate ==
    last.op \in JobOps =>
        /\ last.res = IF effects.fault THEN "error" ELSE "ok"
        /\ last.res = "error" =>
              /\ ENABLED JobCheck
              /\ ENABLED JobMorning
              /\ ENABLED JobDaily
              /\ ENABLED JobCleanup
              /\ ENABLED JobStatistics

\* C18 as it was stated: whenever the repository or the dispatcher raises
\* during a run of a job, the run returns a failure summary.
C18_AnyExceptionIsFailureSummary ==
    (last.op \in JobOps /\ (effects.fault \/ DispatcherRaises(effects.gateway))) =>
        last.res = "error"

\* a run of check_habit_completions in which the dispatcher raised for one
\* habit and the repository raised after it
C18_FailedRunAfterDispatcherRaised ==
    /\ last.op = "check_habit_completions"
    /\ last.res = "error"
    /\ DispatcherRaises(effects.gateway)

\* a run of check_habit_completions that the repository did not fail, seen
\* before anything else happened
CheckRan ==
    /\ last.op = "check_habit_completions"
    /\ ~effects.fault
    /\ effects.day = today

\* C19: a run of check_habit_completions sends an inactive reminder for a
\* habit if and only if the habit has never been completed and was created
\* more than 7 days ago, or its last completion is more than 7 days old; the
\* reminder for a habit that was never completed has the reason "never
\* completed" (so a habit created on day 0 and never completed gets none on
\* day 7 and one on day 8).
C19_RemindsExactlyTheInactive ==
    CheckRan =>
        \A h \in DOMAIN habits :
            /\ h \in DOMAIN effects.called <=>
                  \/ CompletionsOf(h) = {} /\ today - habits[h].created_at > 7
                  \/ /\ CompletionsOf(h) # {}
                     /\ today - Max({e.date : e \in CompletionsOf(h)}) > 7
            /\ (h \in DOMAIN effects.called /\ CompletionsOf(h) = {}) =>
                  effects.called[h] = "never completed"

\* a run on day 8 has reminded of a habit created on day 0 and never
\* completed, with the reason "never completed"
C19_NeverCompletedOnDayEight ==
    /\ CheckRan
    /\ today = 8
    /\ \E h \in DOMAIN habits :
          /\ habits[h].created_at = 0
          /\ CompletionsOf(h) = {}
          /\ h \in DOMAIN effects.called
          /\ effects.called[h] = "never completed"

---------------------------------------------------------------------------
\* CleanupSpec: one habit, completed by its owner while the days pass, and
\* the retention job

\* CleanupSpec: the clock is advanced at most this many times
CleanupTicks == 2

\* by how many days one step of the clock advances it in CleanupSpec: up to
\* and past the 7 days of the cadence rules, and up to the retention period
CleanupSteps == {1, 2, StaleDays, RetentionDays - 1, RetentionDays}

CleanupCreate == habits = NoHabits /\ ModelCreate("u1", PlainHabit)
CleanupMark == \E h \in DOMAIN habits : MarkCompleted(habits[h].user, h)
CleanupTick == ticks < CleanupTicks /\ \E d \in CleanupSteps : Tick(d)
CleanupRun == \E fault \in BOOLEAN : RunCleanup(fault)

CleanupNext ==
    \/ CleanupCreate
    \/ CleanupMark
    \/ CleanupTick
    \/ CleanupRun

CleanupSpec == Init /\ [][CleanupNext]_vars

---------------------------------------------------------------------------
(* Properties of the retention job (CleanupSpec) *)

---------------------------------------------------------------------------
\* WindowSpec: send_daily_reminders at every hour of the day, over habits
\* with times of day before, at and after midnight

\* WindowSpec: the Habit table hands out the ids 1..WindowHabits
WindowHabits == 2
\* WindowSpec: the clock is advanced at most this many times
WindowTicks == 1

\* celery.py:14-17  crontab(minute=0, hour="*/1"): the run times, in minutes
RunTimes == {Hour * k : k \in 0..23}

\* the times of day of the habits: 00:00, 00:30, 09:30, 23:00, 23:30
HabitTimes == {0, 30, 570, 1380, 1410}

WindowCreate ==
    /\ nextHabitId <= WindowHabits
    /\ \E t \in HabitTimes : ModelCreate("u1", PlainHabit @@ [time |-> t])
WindowMark == \E h \in DOMAIN habits : MarkCompleted(habits[h].user, h)
WindowTick == ticks < WindowTicks /\ Tick(1)
WindowDaily ==
    \E now \in RunTimes, fault \in FaultPoints :
        \E gw \in GatewayRuns(DailyCalls(DueAt(now), fault)) :
            send_daily_reminders(DueAt(now), gw, fault)

WindowNext ==
    \/ WindowCreate
    \/ WindowMark
    \/ WindowTick
    \/ WindowDaily

WindowSpec == Init /\ [][WindowNext]_vars

---------------------------------------------------------------------------
(* Properties of the hourly reminders (WindowSpec) *)

\* the time of day t lies within the hour that starts at `now`, also when
\* that hour runs past midnight
WithinTheHour(now, t) == (t - now) % 1440 <= 60

\* C22: for every run time of send_daily_reminders (every hour of the day,
\* also 23:00, whose window crosses midnight) a daily reminder is sent for
\* a habit if and only if its time of day lies within [now, now + 1h] and
\* its owner has no completion for today.
C22_RemindsWithinTheHour ==
    [][ last'.op = "send_daily_reminders" =>
            \A now \in RunTimes :
                send_daily_reminders(DueAt(now), effects'.gateway, NoFault) =>
                    \A h \in DOMAIN habits :
                        h \in DOMAIN effects'.called <=>
                            /\ WithinTheHour(now, habits[h].time)
                            /\ \A e \in CompletionsOf(h) :
                                  ~(e.user = habits[h].user /\ e.date = today)
      ]_vars

---------------------------------------------------------------------------
\* RunSpec: runs of send_morning_reminders and check_habit_completions
\* followed step by step, one at a time and with no request during a run,
\* with every behaviour of the gateway; a step of a run that can be taken is
\* taken

\* RunSpec: the Habit table hands out the ids 1..RunHabits
RunHabits == 2
\* RunSpec: the clock is advanced at most this many times
RunTicks == 1

\* the jobs RunSpec follows
RunJobs == {"send_morning_reminders", "check_habit_completions"}

Resting == run.pc \in {"idle", "done"}

RunCreate == Resting /\ nextHabitId <= RunHabits /\ ModelCreate("u1", PlainHabit)
RunMark == Resting /\ \E h \in DOMAIN habits : MarkCompleted(habits[h].user, h)
RunSetChat == Resting /\ \E has \in BOOLEAN : SetChat("u1", has)
RunTick == Resting /\ ticks < RunTicks /\ Tick(StaleDays + 1)
RunBegin == \E job \in RunJobs : RunStart(job)
RunGateway == \E g \in GatewayBehaviours : RunSend(g)

RunNext ==
    \/ RunCreate
    \/ RunMark
    \/ RunSetChat
    \/ RunTick
    \/ RunBegin
    \/ RunLoop
    \/ RunGateway
    \/ RunFault

RunSpec ==
    /\ Init
    /\ [][RunNext]_vars
    /\ WF_vars(RunLoop)
    /\ WF_vars(RunGateway)

---------------------------------------------------------------------------
(* Properties of a run followed step by step (RunSpec) *)

\* C23: every run of a scheduled job terminates: a gateway that never
\* answers ends as a delivery failure for that reminder and the run goes on
\* to its end.
C23_EveryRunTerminates ==
    (run.pc \in {"loop", "sending", "waiting"}) ~> (run.pc = "done")

---------------------------------------------------------------------------
\* DeleteSpec: habits of two users, some linked to a pleasant habit, their
\* completions, and the deletion of habits and of users

\* DeleteSpec: the Habit table hands out the ids 1..DeleteHabits
DeleteHabits == 3

\* the habits DeleteSpec creates: a pleasant habit, a plain habit, and a
\* habit (of 30 seconds) linked to an existing habit r
DeletePayloads ==
    {[PlainHabit EXCEPT !.is_pleasant = TRUE, !.is_public = TRUE], PlainHabit}
    \cup {[PlainHabit EXCEPT !.related_habit = r, !.duration = 30] : r \in DOMAIN habits}

DeleteCreate ==
    /\ nextHabitId <= DeleteHabits
    /\ \E u \in AllUsers, data \in DeletePayloads : ModelCreate(u, data)
DeleteMark == \E h \in DOMAIN habits : MarkCompleted(habits[h].user, h)
DeleteDestroy == \E u \in AllUsers, h \in DOMAIN habits : DestroyHabit(u, h)
DeleteOwner == \E u \in AllUsers : DeleteUser(u)

DeleteNext ==
    \/ DeleteCreate
    \/ DeleteMark
    \/ DeleteDestroy
    \/ DeleteOwner

DeleteSpec == Init /\ [][DeleteNext]_vars

---------------------------------------------------------------------------
(* Properties of deletions (DeleteSpec) *)

\* C24: deleting a habit clears related_habit on every habit that referred
\* to it and deletes none of them, and deletes all of its completions and no
\* others; deleting a user deletes all of the user's habits and completions
\* and clears the links to those habits; no habit and no completion ever
\* refers to a deleted habit or user.
C24_DeletionsKeepReferences ==
    /\ []( /\ \A h \in DOMAIN habits :
                /\ habits[h].user \in users
                /\ habits[h].related_habit \in DOMAIN habits \cup {Null}
           /\ \A e \in Rows : e.habit \in DOMAIN habits /\ e.user \in users )
    /\ [][ (last'.op = "delete_habit" /\ last'.res = "ok") =>
              /\ DOMAIN habits' = DOMAIN habits \ {last'.h}
              /\ \A h \in DOMAIN habits' :
                    habits'[h] = IF habits[h].related_habit = last'.h
                                 THEN [habits[h] EXCEPT !.related_habit = Null]
                                 ELSE habits[h]
              /\ BagToSet(completions') = {e \in Rows : e.habit # last'.h}
         ]_vars
    /\ [][ (last'.op = "delete_user" /\ users' # users) =>
              /\ DOMAIN habits' = {h \in DOMAIN habits : habits[h].user # last'.u}
              /\ \A h \in DOMAIN habits' :
                    habits'[h] = IF habits[h].related_habit \in DOMAIN habits \ DOMAIN habits'
                                 THEN [habits[h] EXCEPT !.related_habit = Null]
                                 ELSE habits[h]
              /\ BagToSet(completions') =
                    {e \in Rows : e.user # last'.u /\ e.habit \in DOMAIN habits'}
         ]_vars

\* a habit was deleted, and a habit that was created with a link to it is
\* still there, with its completion and with no link
C24_LinkClearedHabitKept ==
    /\ last.op = "delete_habit"
    /\ last.res = "ok"
    /\ \E h \in DOMAIN habits :
          /\ habits[h].duration = 30
          /\ habits[h].related_habit = Null
          /\ CompletionsOf(h) # {}

---------------------------------------------------------------------------
\* AccessSpec: the requests that change a habit, sent by its owner and by
\* another user, on private and on public habits

\* AccessSpec: the Habit table hands out the ids 1..AccessHabits
AccessHabits == 1

AccessCreate ==
    /\ nextHabitId <= AccessHabits
    /\ \E u \in AllUsers : SerializerCreate(u, [duration |-> 60])
AccessUpdate ==
    \E u \in AllUsers, h \in DOMAIN habits, data \in SeqPayloads, partial \in BOOLEAN :
        SerializerUpdate(u, h, data, partial)
AccessToggle == \E u \in AllUsers, h \in DOMAIN habits : TogglePublic(u, h)
AccessMark == \E u \in AllUsers, h \in DOMAIN habits : MarkCompleted(u, h)
AccessDestroy == \E u \in AllUsers, h \in DOMAIN habits : DestroyHabit(u, h)

AccessNext ==
    \/ AccessCreate
    \/ AccessUpdate
    \/ AccessToggle
    \/ AccessMark
    \/ AccessDestroy

AccessSpec == Init /\ [][AccessNext]_vars

---------------------------------------------------------------------------
(* Properties of the access rules (AccessSpec) *)

\* the requests that change a habit or its completions
Mutations == {"update", "delete_habit", "toggle_public", "mark_completed"}

\* C25: an update, a delete, a toggle_public or a mark_completed requested
\* by a user who is not the owner of the habit is rejected, for a private
\* habit and for a public one, and leaves the habits and the completions as
\* they were.
C25_OnlyTheOwnerMutates ==
    [][ ( /\ last'.op \in Mutations
          /\ last'.h \in DOMAIN habits
          /\ last'.u # habits[last'.h].user ) =>
            /\ last'.res = IF habits[last'.h].is_public THEN "Forbidden" ELSE "NotFound"
            /\ habits' = habits
            /\ completions' = completions
      ]_vars

\* a request of another user on a public habit that has a completion was
\* rejected
C25_PublicHabitRefused ==
    /\ last.op \in Mutations
    /\ last.h \in DOMAIN habits
    /\ last.u # habits[last.h].user
    /\ habits[last.h].is_public
    /\ CompletionsOf(last.h) # {}
    /\ last.res = "Forbidden"

---------------------------------------------------------------------------
(* Properties of the date of a completion (Spec) *)

\* C26: the date of every completion is the date of the day on which it was
\* created, which is the date mark_completed used for its duplicate check;
\* no row ever appears with another date (the caller chooses none, and no
\* row is changed afterwards).
C26_DateIsTheCheckedToday ==
    [][ /\ \A e \in BagToSet(completions') : e \in Rows \/ e.date = today'
        /\ \A p \in Procs :
              (pc[p] = "insert" /\ pc'[p] = "idle" /\ last'.res = "ok") =>
                  \E e \in BagToSet(completions') :
                      /\ e.habit = req[p].h
                      /\ e.user = req[p].u
                      /\ e.date = req[p].d
      ]_vars

---------------------------------------------------------------------------
(* Properties of the 7-day rules (CleanupSpec) *)

\* C27: a run of cleanup_old_completions changes no verdict of the 7-day
\* rules: for every habit, what mark_completed answers its owner, whether
\* validate_habit_consistency lets an update through and whether
\* check_habit_completions reminds are the same before and after the run.
C27_CleanupKeepsVerdicts ==
    [][ (last'.op = "cleanup" /\ RunCleanup(FALSE)) =>
            \A h \in DOMAIN habits :
                /\ MarkReads(h, habits[h].user)' = MarkReads(h, habits[h].user)
                /\ validate_habit_consistency(h, habits[h])'
                      = validate_habit_consistency(h, habits[h])
                /\ (InactiveReason(h) # "none")' = (InactiveReason(h) # "none")
      ]_vars

---------------------------------------------------------------------------
\* RuleSpec: habits of two users, public or private, which any user tries to
\* complete while the days pass and the retention job runs

\* RuleSpec: the clock is advanced at most this many times
RuleTicks == 3
\* RuleSpec: the Habit table hands out the ids 1..RuleHabits
RuleHabits == 2

\* by how many days one step of the clock advances it in RuleSpec
RuleSteps == {1, StaleDays, StaleDays + 1, RetentionDays}

RuleCreate ==
    /\ nextHabitId <= RuleHabits
    /\ \E u \in AllUsers, public \in BOOLEAN :
           ModelCreate(u, [is_public |-> public] @@ PlainHabit)
RuleMark == \E u \in AllUsers, h \in DOMAIN habits : MarkCompleted(u, h)
RuleTick == ticks < RuleTicks /\ \E d \in RuleSteps : Tick(d)
RuleCleanup == RunCleanup(FALSE)

RuleNext ==
    \/ RuleCreate
    \/ RuleMark
    \/ RuleTick
    \/ RuleCleanup

RuleSpec == Init /\ [][RuleNext]_vars

---------------------------------------------------------------------------
(* The count a reminder job reports (JobSpec) *)

\* the three jobs that send reminders
ReminderJobs ==
    {"check_habit_completions", "send_morning_reminders", "send_daily_reminders"}

\* C29: the number of reminders a run of a reminder job reports equals the
\* number of reminders the gateway delivered in that run: a reminder for a
\* user with no chat, or one whose gateway call failed, is not counted.
C29_CountIsDelivered ==
    (last.op \in ReminderJobs /\ last.res = "ok" /\ ~effects.fault) =>
        last.n = Cardinality({h \in DOMAIN effects.gateway :
                                 effects.gateway[h] = "ok"})
---------------------------------------------------------------------------
(* Properties of the sends of a run (RunSpec) *)

\* C30: within one run of a reminder job an exception while sending the
\* reminder for one habit does not stop the run: the run goes back to its
\* loop with the remaining habits and no summary yet, and when it ends with
\* no fault of the repository it has called the dispatcher exactly once for
\* every habit that qualifies and for no other, and returns the normal
\* summary, counting the sends that did not raise.
C30_SendFailureDoesNotStopRun ==
    [][ /\ (run.pc = "sending" /\ run'.raised # run.raised) =>
              /\ run'.pc = "loop"
              /\ run'.todo = run.todo
              /\ last' = last
        /\ (run.pc # "done" /\ run'.pc = "done" /\ ~effects'.fault) =>
              /\ last'.op = run.job
              /\ last'.res = "ok"
              /\ \A h \in DOMAIN habits :
                     Attempts(h)' = IF Qualifies(run.job, h) THEN 1 ELSE 0
              /\ last'.n = Cardinality(DOMAIN run'.attempts \ run'.raised)
      ]_vars

\* C30 happens: a run ended with its normal summary after the send for the
\* first of two qualifying habits raised and the second was still sent
C30_SecondSentAfterFirstRaised ==
    /\ run.pc = "done"
    /\ last.op = run.job /\ last.res = "ok" /\ last.n = 1
    /\ \E h \in run.raised, g \in DOMAIN run.attempts \ run.raised : h < g
=============================================================================
